---- MODULE Spec2Model ----
(***************************************************************************)
(* MeltAssist dosing pipeline: MeltPredictor.predict_alloy_additions       *)
(* (backend/meltopt/ml/predictor.py) with the configuration of             *)
(* backend/meltopt/ml/config.py and the model set of ml/loader.py.         *)
(*                                                                         *)
(* Numbers are fixed point, computed exactly:                              *)
(*   chemistry values and deltas   1/100 of a percent                      *)
(*   kg per ton                    1/1000 kg/ton                           *)
(*   melt weight                   kg (accepted weights are multiples of   *)
(*                                 WeightGrain)                            *)
(*   total_kg_raw                  1/20000 kg                              *)
(*   total_kg_needed, step         1/400000 kg (KgUnit)                    *)
(*   surfaced kg values            1/10 kg   (round(x, 1))                 *)
(*   surfaced kg_per_ton           1/100 kg/ton (round(x, 2))              *)
(* A float is a record [nan, v]: v is the fixed-point value, nan marks     *)
(* IEEE not-a-number, whose comparisons are all false.                     *)
(***************************************************************************)
EXTENDS Integers, Sequences, FiniteSets, TLC

VARIABLES models, pc, initial_chemistry, target_chemistry, melt_weight_kg,
          delta, large_correction, features, idx, predictions, all_warnings,
          raw_outputs, totals, invoked, result,
          prediction_order, passed_features,
          stubs, reference, view, audit

vars == <<models, pc, initial_chemistry, target_chemistry, melt_weight_kg,
          delta, large_correction, features, idx, predictions, all_warnings,
          raw_outputs, totals, invoked, result,
          prediction_order, passed_features,
          stubs, reference, view, audit>>

\* what lives outside a call of predict_alloy_additions
outer_vars == <<stubs, reference, view, audit>>

(***************************************************************************)
(* config.py                                                               *)
(***************************************************************************)
AlloyOrder == <<"fesi", "femn", "fecr", "ni">>

MODELS ==
  [fesi |-> [max_per_ton |-> 50000, max_per_step_kg |-> 500],
   femn |-> [max_per_ton |-> 30000, max_per_step_kg |-> 300],
   fecr |-> [max_per_ton |-> 40000, max_per_step_kg |-> 400],
   ni   |-> [max_per_ton |-> 20000, max_per_step_kg |-> 200]]

CHEMISTRY_ELEMENTS == <<"C", "Si", "Mn", "Cr", "Ni">>

min_melt_weight_kg == 100
max_melt_weight_kg == 100000
\* warn_threshold_multiplier = 0.8 = 8/10
warn_threshold_num == 8
warn_threshold_den == 10
\* large_correction_threshold = 0.10 = 1/10
large_correction_den == 10
\* safety_factor = 0.85 = 17/20
safety_factor_num == 17
safety_factor_den == 20
min_step_kg == 10

(***************************************************************************)
(* Fixed-point units                                                       *)
(***************************************************************************)
WeightGrain == 50
RawUnit == 20000
KgUnit == RawUnit * safety_factor_den
TenthUnit == KgUnit \div 10

(***************************************************************************)
(* Floats                                                                  *)
(***************************************************************************)
Float(n) == [nan |-> FALSE, v |-> n]
NaN == [nan |-> TRUE, v |-> 0]

\* a < b and a > b on floats: false when either side is NaN
FloatLt(a, b) == ~a.nan /\ ~b.nan /\ a.v < b.v
FloatGt(a, b) == ~a.nan /\ ~b.nan /\ a.v > b.v

Abs(n) == IF n < 0 THEN -n ELSE n

\* ceil(n / d) for d > 0
CeilDivMutant(n, d) == n \div d
CeilDiv(n, d) == (n + d - 1) \div d

\* round(n / d) to the nearest integer, ties to even (Python's round), d > 0
RoundDiv(n, d) ==
  LET q == n \div d
      r == n % d
  IN  IF 2 * r < d THEN q
      ELSE IF 2 * r > d THEN q + 1
      ELSE IF q % 2 = 0 THEN q ELSE q + 1

\* Optional[List[str]]
None == [is_none |-> TRUE, items |-> <<>>]
Some(l) == [is_none |-> FALSE, items |-> l]

(***************************************************************************)
(* Python dict helpers                                                     *)
(***************************************************************************)
EmptyDict == [k \in {} |-> 0]

\* d.get(key, 0.0)
Get(d, key) == IF key \in DOMAIN d THEN d[key] ELSE 0

\* d[key] = value for a key not yet in d
Put(d, key, value) == [k \in (DOMAIN d) \cup {key} |-> IF k = key THEN value ELSE d[k]]

Range(s) == {s[i] : i \in DOMAIN s}

(***************************************************************************)
(* MeltPredictor helpers                                                   *)
(***************************************************************************)
compute_chemistry_deltaMutant(initial, target) ==
  [element \in Range(CHEMISTRY_ELEMENTS) |-> Get(initial, element) - Get(target, element)]
compute_chemistry_delta(initial, target) ==
  [element \in Range(CHEMISTRY_ELEMENTS) |-> Get(target, element) - Get(initial, element)]

prepare_featuresMutant(chemistry_delta) ==
  [i \in DOMAIN CHEMISTRY_ELEMENTS |->
     Get(chemistry_delta, CHEMISTRY_ELEMENTS[Len(CHEMISTRY_ELEMENTS) + 1 - i])]
prepare_features(chemistry_delta) ==
  [i \in DOMAIN CHEMISTRY_ELEMENTS |-> Get(chemistry_delta, CHEMISTRY_ELEMENTS[i])]

\* abs(delta[elem]) / target_val > 0.10, for target_val > 0
check_large_correctionMutant(d, target) ==
  \E i \in DOMAIN CHEMISTRY_ELEMENTS :
     LET elem == CHEMISTRY_ELEMENTS[i]
         target_val == Get(target, elem)
     IN  /\ target_val > 0
         /\ Abs(d[elem]) * large_correction_den >= target_val
check_large_correction(d, target) ==
  \E i \in DOMAIN CHEMISTRY_ELEMENTS :
     LET elem == CHEMISTRY_ELEMENTS[i]
         target_val == Get(target, elem)
     IN  /\ target_val > 0
         /\ Abs(d[elem]) * large_correction_den > target_val

(***************************************************************************)
(* predict_alloy_additions, step 1: melt weight validation                 *)
(***************************************************************************)
\* an argument of the wrong type: a weight that does not compare with a float,
\* a chemistry argument without .get
NotANumber == [nan |-> TRUE, v |-> 0, not_a_number |-> TRUE]
NotAMapping == [not_a_mapping |-> TRUE]
IsNumber(w) == "not_a_number" \notin DOMAIN w
IsMapping(d) == "not_a_mapping" \notin DOMAIN d

weight_too_small(w) == FloatLt(w, Float(min_melt_weight_kg))

weight_too_largeMutant(w) == FALSE
weight_too_large(w) == FloatGt(w, Float(max_melt_weight_kg))

ErrorResult(msg) == [status |-> "error", message |-> msg]

TooSmallMessage(w) ==
  [text |-> "Melt weight too small", value |-> w.v, bound |-> "min", limit |-> min_melt_weight_kg]
TooLargeMessage(w) ==
  [text |-> "Melt weight too large", value |-> w.v, bound |-> "max", limit |-> max_melt_weight_kg]
PredictionErrorMessage(e) ==
  [text |-> "Prediction error", value |-> 0, bound |-> e, limit |-> 0]

\* except Exception as e: the whole request becomes an error result
on_exceptionMutant(e, preds) ==
  [status |-> "error", message |-> PredictionErrorMessage(e), recommendations |-> preds]
on_exceptionMutantEscape(e, preds) == [status |-> "raised", message |-> PredictionErrorMessage(e)]
on_exception(e, preds) == ErrorResult(PredictionErrorMessage(e))

(***************************************************************************)
(* predict_alloy_additions, step 4: one alloy                              *)
(***************************************************************************)
\* max(0.0, kg_per_ton): the second argument wins only when it compares greater
floor_kg_per_tonMutant(raw) == raw.v
floor_kg_per_ton(raw) == IF FloatGt(raw, Float(0)) THEN raw.v ELSE 0

clamp_kg_per_tonMutant(kg_per_ton, config) == kg_per_ton
clamp_kg_per_ton(kg_per_ton, config) ==
  IF kg_per_ton > config.max_per_ton THEN config.max_per_ton ELSE kg_per_ton

\* kg_per_ton * melt_weight_tons, in 1/RawUnit kg
total_kg_raw(kg_per_ton, weight) == kg_per_ton * (weight \div WeightGrain)

\* total_kg_raw * safety_factor, in 1/KgUnit kg
total_kg_neededMutant(kg_per_ton, weight) ==
  total_kg_raw(kg_per_ton, weight) * (safety_factor_num + 1)
total_kg_needed(kg_per_ton, weight) == total_kg_raw(kg_per_ton, weight) * safety_factor_num

step_planMutantSmall(total, max_step) ==
  IF total <= (min_step_kg \div 10) * KgUnit
    THEN [step_recommendation |-> 0, estimated_steps |-> 0]
  ELSE IF total <= max_step * KgUnit
    THEN [step_recommendation |-> total, estimated_steps |-> 1]
  ELSE [step_recommendation |-> max_step * KgUnit,
        estimated_steps |-> CeilDiv(total, max_step * KgUnit)]
step_planMutantLarge(total, max_step) ==
  IF total <= min_step_kg * KgUnit
    THEN [step_recommendation |-> 0, estimated_steps |-> 0]
  ELSE [step_recommendation |-> total, estimated_steps |-> 1]
step_plan(total, max_step) ==
  IF total <= min_step_kg * KgUnit
    THEN [step_recommendation |-> 0, estimated_steps |-> 0]
  ELSE IF total <= max_step * KgUnit
    THEN [step_recommendation |-> total, estimated_steps |-> 1]
  ELSE [step_recommendation |-> max_step * KgUnit,
        estimated_steps |-> CeilDiv(total, max_step * KgUnit)]

large_stepMutant(step_recommendation, config) ==
  step_recommendation > config.max_per_step_kg * KgUnit
large_step(step_recommendation, config) ==
  step_recommendation > ((config.max_per_step_kg * KgUnit) \div warn_threshold_den) * warn_threshold_num

ClampWarning(model_name, kg_per_ton, config) ==
  [alloy |-> model_name, kind |-> "clamped", value |-> RoundDiv(kg_per_ton, 10),
   limit |-> config.max_per_ton]
LargeStepWarning(model_name, step_recommendation) ==
  [alloy |-> model_name, kind |-> "large_step", value |-> RoundDiv(step_recommendation, KgUnit),
   limit |-> 0]
LargeCorrectionWarning ==
  [alloy |-> "", kind |-> "large_correction", value |-> 0, limit |-> 0]

Prediction(plan, total, kg_per_ton, config) ==
  [step_recommendation_kg |-> RoundDiv(plan.step_recommendation, TenthUnit),
   total_estimated_kg |-> RoundDiv(total, TenthUnit),
   estimated_steps |-> plan.estimated_steps,
   kg_per_ton |-> RoundDiv(kg_per_ton, 10),
   max_per_step_kg |-> config.max_per_step_kg]

(***************************************************************************)
(* predict_alloy_additions, step 5: response                               *)
(***************************************************************************)
active_recommendationsMutant(preds) ==
  {k \in DOMAIN preds : preds[k].estimated_steps > 1}
active_recommendations(preds) ==
  {k \in DOMAIN preds : preds[k].step_recommendation_kg > 0}

NoAdditionsMessage == "No alloy additions needed"
StepOneMessage == "Recommended alloy additions for STEP 1:"

\* recommendations_keys is the key order of the recommendations dict
SuccessResult(message, next_action, d, weight, preds, order, warnings, used, large) ==
  [status |-> "success",
   operator_instructions |-> [message |-> message, next_action |-> next_action],
   chemistry_delta |-> d,
   melt_weight_kg |-> weight,
   melt_weight_tons |-> RoundDiv(weight, 10),
   recommendations |-> preds,
   recommendations_keys |-> order,
   warnings |-> warnings,
   metadata |-> [models_used |-> used, large_correction |-> large,
                 safety_factor_applied |-> <<safety_factor_num, safety_factor_den>>]]

BuildResponseMutantOrder(d, weight, preds, order, warnings, used, large) ==
  LET final_warnings == IF large THEN Append(warnings, LargeCorrectionWarning) ELSE warnings
  IN  IF active_recommendations(preds) = {}
        THEN SuccessResult(NoAdditionsMessage, "Chemistry is within target range",
                           d, weight, preds, order, None, used, large)
        ELSE SuccessResult(StepOneMessage, "Add alloys, mix, sample, re-run",
                           d, weight, preds, order,
                           IF final_warnings # <<>> THEN Some(final_warnings) ELSE None,
                           used, large)
BuildResponseMutantActive(d, weight, preds, order, warnings, used, large) ==
  LET final_warnings == IF large THEN <<LargeCorrectionWarning>> \o warnings ELSE warnings
      active == active_recommendations(preds)
  IN  IF active = {}
        THEN SuccessResult(NoAdditionsMessage, "Chemistry is within target range",
                           d, weight, preds, order, None, used, large)
        ELSE SuccessResult(StepOneMessage, "Add alloys, mix, sample, re-run",
                           d, weight, [k \in active |-> preds[k]],
                           SelectSeq(order, LAMBDA k : k \in active),
                           IF final_warnings # <<>> THEN Some(final_warnings) ELSE None,
                           used, large)
BuildResponse(d, weight, preds, order, warnings, used, large) ==
  LET final_warnings == IF large THEN <<LargeCorrectionWarning>> \o warnings ELSE warnings
  IN  IF active_recommendations(preds) = {}
        THEN SuccessResult(NoAdditionsMessage, "Chemistry is within target range",
                           d, weight, preds, order, None, used, large)
        ELSE SuccessResult(StepOneMessage, "Add alloys, mix, sample, re-run",
                           d, weight, preds, order,
                           IF final_warnings # <<>> THEN Some(final_warnings) ELSE None,
                           used, large)

(***************************************************************************)
(* Inputs explored                                                         *)
(***************************************************************************)
\* dicts with keys among keys and values among values
Dicts(keys, values) == UNION {[d -> values] : d \in SUBSET keys}

\* non-empty subsequences of AlloyOrder: the models the loader managed to load
Keep(s, S) == SelectSeq(s, LAMBDA a : a \in S)
LoadableModelSets == {Keep(AlloyOrder, S) : S \in (SUBSET Range(AlloyOrder)) \ {{}}}

DoseChemistry == Dicts({"C"}, {18, 20}) \cup {NotAMapping}
MeltWeights ==
  {Float(50), Float(100), Float(11800), Float(100000), Float(100050), NaN, NotANumber}
MaxRawMultiple == 1
RawValues ==
  {Float(-1000), Float(1000), Float(4000), Float(500000), NaN}
    \cup {Float(m * 11765) : m \in 1..MaxRawMultiple}
Raise == [nan |-> FALSE, v |-> 0, raises |-> TRUE]
PredictorOutcomes == RawValues \cup {Raise}
Raises(out) == "raises" \in DOMAIN out

(***************************************************************************)
(* State machine                                                           *)
(***************************************************************************)
NoResult == [status |-> "none"]
NoWeight == Float(0)

Locals0 ==
  /\ delta = EmptyDict
  /\ large_correction = FALSE
  /\ features = <<>>
  /\ idx = 0
  /\ predictions = EmptyDict
  /\ all_warnings = <<>>
  /\ raw_outputs = EmptyDict
  /\ totals = EmptyDict
  /\ prediction_order = <<>>
  /\ passed_features = EmptyDict

NoStubs == EmptyDict
NoReference == [set |-> FALSE]
NoResponse == [result |-> NoResult, http_status |-> 0]
NoView ==
  [stage |-> "idle", posts |-> 0, data |-> EmptyDict, called |-> FALSE,
   response |-> NoResponse, attempts |-> 0, database_up |-> TRUE, rows_before |-> 0]

\* no call is in progress
CallInit ==
  /\ pc = "idle"
  /\ initial_chemistry = EmptyDict
  /\ target_chemistry = EmptyDict
  /\ melt_weight_kg = NoWeight
  /\ Locals0
  /\ invoked = [a \in Range(AlloyOrder) |-> 0]
  /\ result = NoResult

\* loader.py: the models loaded at import, in MODELS order
Init ==
  /\ models \in LoadableModelSets
  /\ CallInit
  /\ stubs = NoStubs
  /\ reference = NoReference
  /\ view = NoView
  /\ audit = <<>>

\* predictor.py 76-107: entry, weight validation, delta, features
Call(initial, target, weight) ==
  /\ pc = "idle"
  /\ initial_chemistry' = initial
  /\ target_chemistry' = target
  /\ melt_weight_kg' = weight
  /\ invoked' = [a \in Range(AlloyOrder) |-> 0]
  /\ idx' = 0
  /\ predictions' = EmptyDict
  /\ all_warnings' = <<>>
  /\ raw_outputs' = EmptyDict
  /\ totals' = EmptyDict
  /\ prediction_order' = <<>>
  /\ passed_features' = EmptyDict
  /\ IF ~IsNumber(weight)
       THEN \* melt_weight_kg < min raises TypeError
            /\ result' = on_exception("weight_type", EmptyDict)
            /\ pc' = "returned"
            /\ UNCHANGED <<delta, large_correction, features>>
     ELSE IF weight_too_small(weight)
       THEN /\ result' = ErrorResult(TooSmallMessage(weight))
            /\ pc' = "returned"
            /\ UNCHANGED <<delta, large_correction, features>>
     ELSE IF weight_too_large(weight)
       THEN /\ result' = ErrorResult(TooLargeMessage(weight))
            /\ pc' = "returned"
            /\ UNCHANGED <<delta, large_correction, features>>
     ELSE IF ~IsMapping(initial) \/ ~IsMapping(target)
       THEN \* initial.get or target.get raises AttributeError
            /\ result' = on_exception("chemistry_type", EmptyDict)
            /\ pc' = "returned"
            /\ UNCHANGED <<delta, large_correction, features>>
     ELSE /\ delta' = compute_chemistry_delta(initial, target)
          /\ large_correction' = check_large_correction(delta', target)
          /\ features' = prepare_features(delta')
          /\ result' = NoResult
          /\ pc' = "predicting"
  /\ UNCHANGED models

\* predictor.py 115-165 and 221-226: one iteration of the loop over the models
PredictBody(out) ==
  /\ pc = "predicting"
  /\ idx < Len(models)
  /\ LET model_name == models[idx + 1]
         config == MODELS[model_name]
         floored == floor_kg_per_ton(out)
         kg_per_ton == clamp_kg_per_ton(floored, config)
         warnings1 == IF floored > config.max_per_ton
                        THEN Append(all_warnings, ClampWarning(model_name, floored, config))
                        ELSE all_warnings
         total == total_kg_needed(kg_per_ton, melt_weight_kg.v)
         plan == step_plan(total, config.max_per_step_kg)
         warnings2 == IF large_step(plan.step_recommendation, config)
                        THEN Append(warnings1, LargeStepWarning(model_name, plan.step_recommendation))
                        ELSE warnings1
     IN  /\ invoked' = [invoked EXCEPT ![model_name] = @ + 1]
         /\ passed_features' = Put(passed_features, model_name, features)
         /\ IF Raises(out)
              THEN \* model.predict raised
                   /\ result' = on_exception("predict", predictions)
                   /\ pc' = "returned"
                   /\ UNCHANGED <<idx, predictions, prediction_order, all_warnings,
                                  raw_outputs, totals>>
            ELSE IF melt_weight_kg.nan
              THEN \* every comparison with the NaN total is false: int(np.ceil(nan)) raises
                   /\ result' = on_exception("nan", predictions)
                   /\ pc' = "returned"
                   /\ raw_outputs' = Put(raw_outputs, model_name, out)
                   /\ all_warnings' = warnings1
                   /\ UNCHANGED <<idx, predictions, prediction_order, totals>>
            ELSE /\ raw_outputs' = Put(raw_outputs, model_name, out)
                 /\ totals' = Put(totals, model_name, total)
                 /\ predictions' = Put(predictions, model_name,
                                       Prediction(plan, total, kg_per_ton, config))
                 /\ prediction_order' = Append(prediction_order, model_name)
                 /\ all_warnings' = warnings2
                 /\ idx' = idx + 1
                 /\ UNCHANGED <<result, pc>>
  /\ UNCHANGED <<initial_chemistry, target_chemistry, melt_weight_kg,
                 delta, large_correction, features>>

\* the loaded models are read, never changed
PredictMutant(out) ==
  /\ PredictBody(out)
  /\ models' = IF Raises(out)
                 THEN SelectSeq(models, LAMBDA a : a # models[idx + 1])
                 ELSE models
Predict(out) ==
  /\ PredictBody(out)
  /\ UNCHANGED models

\* predictor.py 167-219: the loop is over, build the response
Respond ==
  /\ pc = "predicting"
  /\ idx = Len(models)
  /\ result' = BuildResponse(delta, melt_weight_kg.v, predictions, prediction_order,
                             all_warnings, models, large_correction)
  /\ pc' = "returned"
  /\ UNCHANGED <<models, initial_chemistry, target_chemistry, melt_weight_kg,
                 delta, large_correction, features, idx, predictions,
                 all_warnings, raw_outputs, totals, invoked,
                 prediction_order, passed_features>>

\* the caller has the result; the locals of the call are gone
Return ==
  /\ pc = "returned"
  /\ pc' = "idle"
  /\ initial_chemistry' = EmptyDict
  /\ target_chemistry' = EmptyDict
  /\ melt_weight_kg' = NoWeight
  /\ delta' = EmptyDict
  /\ large_correction' = FALSE
  /\ features' = <<>>
  /\ idx' = 0
  /\ predictions' = EmptyDict
  /\ all_warnings' = <<>>
  /\ raw_outputs' = EmptyDict
  /\ totals' = EmptyDict
  /\ prediction_order' = <<>>
  /\ passed_features' = EmptyDict
  /\ invoked' = [a \in Range(AlloyOrder) |-> 0]
  /\ result' = NoResult
  /\ UNCHANGED models

(***************************************************************************)
(* Direct calls of predict_alloy_additions, the predictors being black     *)
(* boxes that may return anything                                          *)
(***************************************************************************)
CallDose ==
  /\ pc = "idle"
  /\ \E initial \in DoseChemistry, target \in DoseChemistry, weight \in MeltWeights :
        Call(initial, target, weight)
  /\ UNCHANGED outer_vars

PredictAny ==
  /\ pc = "predicting"
  /\ \E out \in PredictorOutcomes : Predict(out)
  /\ UNCHANGED outer_vars

RespondDirect == Respond /\ UNCHANGED outer_vars

ReturnDirect == Return /\ UNCHANGED outer_vars

Next == CallDose \/ PredictAny \/ RespondDirect \/ ReturnDirect

Spec == Init /\ [][Next]_vars

(***************************************************************************)
(* Chemistry-centred exploration: all four models loaded, many chemistry   *)
(* maps, few weights and predictor outcomes                                *)
(***************************************************************************)
MaxChemValue == 20
ChemValues == {0} \cup (18..MaxChemValue)
ChemChemistry == Dicts({"C", "Ni", "P"}, ChemValues)
ChemWeights == {Float(50), Float(20000)}
ChemOutcomes == {Float(1000), Raise}

InitChem ==
  /\ Init
  /\ models = AlloyOrder

CallChem ==
  /\ pc = "idle"
  /\ \E initial \in ChemChemistry, target \in ChemChemistry, weight \in ChemWeights :
        Call(initial, target, weight)
  /\ UNCHANGED outer_vars

PredictChem ==
  /\ pc = "predicting"
  /\ \E out \in ChemOutcomes : Predict(out)
  /\ UNCHANGED outer_vars

NextChem == CallChem \/ PredictChem \/ RespondDirect \/ ReturnDirect

SpecChem == InitChem /\ [][NextChem]_vars

(***************************************************************************)
(* Repeated calls with deterministic predictors: every alloy has a stub    *)
(* regressor whose output is a fixed function of the feature vector; one   *)
(* earlier call is remembered with its result                              *)
(***************************************************************************)
\* calls counted between the remembered call and the current one
MaxBetween == 2

StubKinds ==
  {[base |-> 1000, gain |-> 500, fails |-> FALSE],
   [base |-> 500000, gain |-> 0, fails |-> FALSE],
   [base |-> 0, gain |-> 0, fails |-> TRUE]}

\* model.predict(features)[0] of a fitted linear regressor
StubPredict(stub, x) ==
  IF stub.fails THEN Raise ELSE Float(stub.base + stub.gain * x[1])

TwiceModels == <<"fesi", "ni">>
TwiceChemistry == Dicts({"C"}, {18, 20})
TwiceWeights == {Float(50), Float(11800), Float(100000)}

InitTwice ==
  /\ models = TwiceModels
  /\ CallInit
  /\ stubs \in [Range(TwiceModels) -> StubKinds]
  /\ reference = NoReference
  /\ view = NoView
  /\ audit = <<>>

CallTwice ==
  /\ pc = "idle"
  /\ \E initial \in TwiceChemistry, target \in TwiceChemistry, weight \in TwiceWeights :
        Call(initial, target, weight)
  /\ UNCHANGED outer_vars

PredictStub ==
  /\ pc = "predicting"
  /\ idx < Len(models)
  /\ Predict(StubPredict(stubs[models[idx + 1]], features))
  /\ UNCHANGED outer_vars

\* the caller keeps the result of one call to compare later results with
ReturnTwice ==
  /\ Return
  /\ IF reference.set
       THEN reference' = [reference EXCEPT
                            !.between = IF @ < MaxBetween THEN @ + 1 ELSE @]
       ELSE \E remember \in BOOLEAN :
              reference' = IF remember
                             THEN [set |-> TRUE, initial |-> initial_chemistry,
                                   target |-> target_chemistry,
                                   weight |-> melt_weight_kg,
                                   result |-> result, between |-> 0]
                             ELSE reference
  /\ UNCHANGED <<stubs, view, audit>>

NextTwice == CallTwice \/ PredictStub \/ RespondDirect \/ ReturnTwice

SpecTwice == InitTwice /\ [][NextTwice]_vars

(***************************************************************************)
(* MeltOptimizationView.post (views.py) around predict_alloy_additions,    *)
(* with the audit table of models.py                                       *)
(***************************************************************************)
HTTP_200_OK == 200
HTTP_400_BAD_REQUEST == 400
HTTP_500_INTERNAL_SERVER_ERROR == 500

\* POSTs handled in one behaviour
MaxPosts == 2

\* JSON values of melt_weight_kg: a number, an integer beyond the range of a
\* float, a string holding a number, the string "nan", any other text, null
JNumber(n) == [kind |-> "number", nan |-> FALSE, v |-> n]
JNumericString(n) == [kind |-> "numeric_string", nan |-> FALSE, v |-> n]
JNanString == [kind |-> "nan_string", nan |-> TRUE, v |-> 0]
JText == [kind |-> "text", nan |-> FALSE, v |-> 0]
JNull == [kind |-> "null", nan |-> FALSE, v |-> 0]
JBigInt == [kind |-> "big_integer", nan |-> FALSE, v |-> 0]

\* the exception float(melt_weight) raises, "none" when it returns
float_raises(j) ==
  CASE j.kind \in {"text"} -> "ValueError"
    [] j.kind \in {"null"} -> "TypeError"
    [] j.kind \in {"big_integer"} -> "OverflowError"
    [] OTHER -> "none"

\* float(melt_weight)
to_float(j) == IF j.nan THEN NaN ELSE Float(j.v)

required_fields == <<"initial_chemistry", "target_chemistry", "melt_weight_kg">>

\* request.data raised, or is not a container
Unparseable == [unparseable |-> TRUE]
Parsed(data) == "unparseable" \notin DOMAIN data

missing_fields(data) == SelectSeq(required_fields, LAMBDA f : f \notin DOMAIN data)

\* isinstance(x, dict)
is_dict(x) == IsMapping(x)

MissingFieldsResult(missing) ==
  [status |-> "error",
   message |-> [text |-> "Missing required fields", value |-> Len(missing),
                bound |-> "fields", limit |-> 0],
   hint |-> "melt_weight_kg is required"]
ViewErrorResult(text) ==
  [status |-> "error", message |-> [text |-> text, value |-> 0, bound |-> "view", limit |-> 0]]

\* melt_weight or 0, for a local that may still be None
NoLocal == [kind |-> "none", nan |-> FALSE, v |-> 0]
or_zero(mw) ==
  IF mw.kind \in {"none", "null"} \/ (mw.kind \in {"number", "float"} /\ ~mw.nan /\ mw.v = 0)
    THEN [kind |-> "number", nan |-> FALSE, v |-> 0]
    ELSE mw

\* the row passed to MeltOptimizationRequest.objects.create
AuditRecord(mw, res, http_status) ==
  [melt_weight_kg |-> or_zero(mw),
   response_status |-> IF res = NoResult THEN "error" ELSE res.status,
   http_status_code |-> http_status,
   has_error_message |-> res # NoResult /\ res.status = "error"]

\* melt_weight_kg is a FloatField: a value that float() rejects cannot be stored
Storable(record) == record.melt_weight_kg.kind \notin {"text", "big_integer"}

\* finally: create the row; any failure is logged and swallowed
SaveAudit(mw, res, http_status, db_ok) ==
  LET record == AuditRecord(mw, res, http_status)
  IN  IF db_ok /\ Storable(record)
        THEN audit' = Append(audit, record)
        ELSE audit' = audit

Respond_(data, res, http_status, was_called, db_ok) ==
  view' = [stage |-> "responded", posts |-> view.posts + 1, data |-> data,
           called |-> was_called,
           response |-> [result |-> res, http_status |-> http_status],
           attempts |-> 1, database_up |-> db_ok, rows_before |-> Len(audit)]

\* views.py 20-68 and 86-113: a POST answered without a prediction
PostRejected(data, db_ok) ==
  /\ view.stage = "idle"
  /\ view.posts < MaxPosts
  /\ pc = "idle"
  /\ LET missing == missing_fields(data)
         mw == IF "melt_weight_kg" \in DOMAIN data THEN data["melt_weight_kg"] ELSE NoLocal
         Finish(local_weight, res, http_status) ==
           /\ SaveAudit(local_weight, res, http_status, db_ok)
           /\ Respond_(data, res, http_status, FALSE, db_ok)
     IN  IF ~Parsed(data)
           THEN Finish(NoLocal, ViewErrorResult("Internal server error"),
                       HTTP_500_INTERNAL_SERVER_ERROR)
         ELSE IF missing # <<>>
           THEN Finish(NoLocal, MissingFieldsResult(missing), HTTP_400_BAD_REQUEST)
         ELSE IF ~is_dict(data["initial_chemistry"]) \/ ~is_dict(data["target_chemistry"])
           THEN Finish(mw, ViewErrorResult("Chemistry data must be dictionaries"),
                       HTTP_400_BAD_REQUEST)
         ELSE IF float_raises(mw) \in {"ValueError", "TypeError"}
           THEN Finish(mw, ViewErrorResult("melt_weight_kg must be a number"),
                       HTTP_400_BAD_REQUEST)
         ELSE /\ float_raises(mw) # "none"
              /\ Finish(mw, ViewErrorResult("Internal server error"),
                        HTTP_500_INTERNAL_SERVER_ERROR)
  /\ UNCHANGED <<models, pc, initial_chemistry, target_chemistry, melt_weight_kg,
                 delta, large_correction, features, idx, predictions, all_warnings,
                 raw_outputs, totals, invoked, result, prediction_order,
                 passed_features, stubs, reference>>

\* views.py 20-76: the three checks pass and predict_alloy_additions is entered
PostPredict(data) ==
  /\ view.stage = "idle"
  /\ view.posts < MaxPosts
  /\ pc = "idle"
  /\ Parsed(data)
  /\ missing_fields(data) = <<>>
  /\ is_dict(data["initial_chemistry"]) /\ is_dict(data["target_chemistry"])
  /\ float_raises(data["melt_weight_kg"]) = "none"
  /\ Call(data["initial_chemistry"], data["target_chemistry"],
          to_float(data["melt_weight_kg"]))
  /\ view' = [view EXCEPT !.stage = "predicting", !.data = data, !.called = TRUE,
                          !.response = NoResponse, !.attempts = 0,
                          !.rows_before = Len(audit)]
  /\ UNCHANGED <<stubs, reference, audit>>

\* views.py 78-84 and 95-113: the prediction returned
PostFinish(db_ok) ==
  /\ view.stage = "predicting"
  /\ pc = "returned"
  /\ LET http_status == IF result.status = "success"
                          THEN HTTP_200_OK ELSE HTTP_500_INTERNAL_SERVER_ERROR
         mw == [kind |-> "float", nan |-> melt_weight_kg.nan, v |-> melt_weight_kg.v]
     IN  /\ SaveAudit(mw, result, http_status, db_ok)
         /\ Respond_(view.data, result, http_status, TRUE, db_ok)
  /\ Return
  /\ UNCHANGED <<stubs, reference>>

\* the client has the response
PostDone ==
  /\ view.stage = "responded"
  /\ view' = [NoView EXCEPT !.posts = view.posts]
  /\ UNCHANGED <<models, pc, initial_chemistry, target_chemistry, melt_weight_kg,
                 delta, large_correction, features, idx, predictions, all_warnings,
                 raw_outputs, totals, invoked, result, prediction_order,
                 passed_features, stubs, reference, audit>>

ViewModels == <<"fesi", "ni">>
ViewChemistry == {EmptyDict, [C |-> 20], NotAMapping}
ViewWeights ==
  {JNumber(50), JNumber(11800), JNumericString(100000), JNanString, JText, JNull, JBigInt}
ViewFields ==
  [initial_chemistry |-> ViewChemistry, target_chemistry |-> ViewChemistry,
   melt_weight_kg |-> ViewWeights]
ViewRequests ==
  {Unparseable} \cup
  UNION {{d \in [fs -> UNION {ViewFields[f] : f \in fs}] : \A f \in fs : d[f] \in ViewFields[f]} :
           fs \in SUBSET Range(required_fields)}
ViewOutcomes == {Float(4000), Float(500000), Raise}

InitView ==
  /\ models = ViewModels
  /\ CallInit
  /\ stubs = NoStubs
  /\ reference = NoReference
  /\ view = NoView
  /\ audit = <<>>

PostInvalid ==
  /\ view.stage = "idle"
  /\ \E data \in ViewRequests, db_ok \in BOOLEAN : PostRejected(data, db_ok)

PostValid ==
  /\ view.stage = "idle"
  /\ \E data \in ViewRequests : PostPredict(data)

PredictView ==
  /\ pc = "predicting"
  /\ \E out \in ViewOutcomes : Predict(out)
  /\ UNCHANGED outer_vars

PostFinishAny == \E db_ok \in BOOLEAN : PostFinish(db_ok)

NextView ==
  PostInvalid \/ PostValid \/ PredictView \/ RespondDirect \/ PostFinishAny \/ PostDone

SpecView == InitView /\ [][NextView]_vars

(***************************************************************************)
(* Properties                                                              *)
(***************************************************************************)
Returned == pc = "returned"
Success == Returned /\ result.status = "success"
Failed == Returned /\ result.status = "error"
Recs == result.recommendations
Elements == Range(CHEMISTRY_ELEMENTS)

\* surfaced kg values are tenths of a kg, surfaced kg/ton values hundredths
MaxStepTenths(a) == MODELS[a].max_per_step_kg * 10
MaxPerTonHundredths(a) == MODELS[a].max_per_ton \div 10

\* C1: in every success result, every alloy's step_recommendation_kg lies in
\* [0, max_per_step_kg] of that alloy, whatever the raw output and the weight.
C1_StepWithinBound ==
  Success =>
    \A a \in DOMAIN Recs :
       /\ 0 <= Recs[a].step_recommendation_kg
       /\ Recs[a].step_recommendation_kg <= MaxStepTenths(a)

C1_Witness ==
  /\ Success
  /\ \E a \in DOMAIN Recs :
        /\ raw_outputs[a].v > MODELS[a].max_per_ton
        /\ totals[a] > MODELS[a].max_per_step_kg * KgUnit
        /\ Recs[a].step_recommendation_kg = MaxStepTenths(a)
  /\ \E a \in DOMAIN Recs : raw_outputs[a].v < 0 /\ Recs[a].step_recommendation_kg = 0

\* C2: a call with a melt weight below the minimum or above the maximum
\* returns an error result with only status and message, the message naming
\* the violated bound, and invokes no predictor; every success result has a
\* melt weight within [min_melt_weight_kg, max_melt_weight_kg].
OutOfRange(w) == ~w.nan /\ (w.v < min_melt_weight_kg \/ w.v > max_melt_weight_kg)

C2_WeightBounds ==
  /\ (pc # "idle" /\ OutOfRange(melt_weight_kg)) =>
        /\ Failed
        /\ DOMAIN result = {"status", "message"}
        /\ result.message.value = melt_weight_kg.v
        /\ IF melt_weight_kg.v < min_melt_weight_kg
             THEN /\ result.message.bound = "min"
                  /\ result.message.limit = min_melt_weight_kg
             ELSE /\ result.message.bound = "max"
                  /\ result.message.limit = max_melt_weight_kg
        /\ \A a \in DOMAIN invoked : invoked[a] = 0
  /\ Success =>
        /\ ~melt_weight_kg.nan
        /\ result.melt_weight_kg = melt_weight_kg.v
        /\ min_melt_weight_kg <= result.melt_weight_kg
        /\ result.melt_weight_kg <= max_melt_weight_kg

C2_Witness ==
  /\ Failed
  /\ melt_weight_kg.v > max_melt_weight_kg
  /\ result.message.bound = "max"

\* C3: in every success result, an alloy whose raw output exceeded its
\* max_per_ton has a clamp warning naming it in the returned warnings.
C3_ClampWarningPresent ==
  Success =>
    \A a \in DOMAIN raw_outputs :
       FloatGt(raw_outputs[a], Float(MODELS[a].max_per_ton)) =>
          /\ ~result.warnings.is_none
          /\ \E i \in DOMAIN result.warnings.items :
                /\ result.warnings.items[i].alloy = a
                /\ result.warnings.items[i].kind = "clamped"

\* C4: in every success result, every alloy's kg_per_ton lies in
\* [0, max_per_ton]; a negative raw output is surfaced as 0 and a raw output
\* above max_per_ton as exactly max_per_ton.
C4_KgPerTonClamped ==
  Success =>
    \A a \in DOMAIN Recs :
       /\ 0 <= Recs[a].kg_per_ton
       /\ Recs[a].kg_per_ton <= MaxPerTonHundredths(a)
       /\ FloatLt(raw_outputs[a], Float(0)) => Recs[a].kg_per_ton = 0
       /\ FloatGt(raw_outputs[a], Float(MODELS[a].max_per_ton)) =>
             Recs[a].kg_per_ton = MaxPerTonHundredths(a)

C4_Witness ==
  /\ Success
  /\ \E a \in DOMAIN Recs : raw_outputs[a].v < 0 /\ Recs[a].kg_per_ton = 0
  /\ \E a \in DOMAIN Recs :
        /\ raw_outputs[a].v > MODELS[a].max_per_ton
        /\ Recs[a].kg_per_ton = MaxPerTonHundredths(a)

\* C5 (as claimed): in every success result, a returned total_estimated_kg
\* <= min_step_kg comes with step_recommendation_kg = 0 and estimated_steps = 0.
C5_Original ==
  Success =>
    \A a \in DOMAIN Recs :
       Recs[a].total_estimated_kg <= min_step_kg * 10 =>
          /\ Recs[a].step_recommendation_kg = 0
          /\ Recs[a].estimated_steps = 0

\* C5 (amended): in every success result, an alloy whose total before
\* rounding is <= min_step_kg has step_recommendation_kg = 0 and
\* estimated_steps = 0; so has every alloy whose returned total_estimated_kg
\* is below min_step_kg.
C5_SkipSmallTotal ==
  Success =>
    \A a \in DOMAIN Recs :
       (totals[a] <= min_step_kg * KgUnit \/ Recs[a].total_estimated_kg < min_step_kg * 10) =>
          /\ Recs[a].step_recommendation_kg = 0
          /\ Recs[a].estimated_steps = 0

C5_Witness ==
  /\ Success
  /\ \E a \in DOMAIN Recs :
        /\ totals[a] > KgUnit
        /\ totals[a] <= min_step_kg * KgUnit
        /\ Recs[a].step_recommendation_kg = 0
        /\ Recs[a].estimated_steps = 0

\* C6 (as claimed): in every success result, a returned total_estimated_kg
\* > max_per_step_kg comes with step_recommendation_kg = max_per_step_kg and
\* estimated_steps = ceil(returned total_estimated_kg / max_per_step_kg).
C6_Original ==
  Success =>
    \A a \in DOMAIN Recs :
       Recs[a].total_estimated_kg > MaxStepTenths(a) =>
          /\ Recs[a].step_recommendation_kg = MaxStepTenths(a)
          /\ (Recs[a].estimated_steps - 1) * MaxStepTenths(a) < Recs[a].total_estimated_kg
          /\ Recs[a].total_estimated_kg <= Recs[a].estimated_steps * MaxStepTenths(a)

\* C6 (amended): in every success result, an alloy whose total before
\* rounding is > max_per_step_kg (as it is whenever the returned
\* total_estimated_kg is > max_per_step_kg) has step_recommendation_kg =
\* max_per_step_kg and estimated_steps = ceil(total before rounding /
\* max_per_step_kg).
C6_SplitLargeTotal ==
  Success =>
    \A a \in DOMAIN Recs :
       /\ Recs[a].total_estimated_kg > MaxStepTenths(a) =>
             totals[a] > MODELS[a].max_per_step_kg * KgUnit
       /\ totals[a] > MODELS[a].max_per_step_kg * KgUnit =>
             /\ Recs[a].step_recommendation_kg = MaxStepTenths(a)
             /\ (Recs[a].estimated_steps - 1) * (MODELS[a].max_per_step_kg * KgUnit) < totals[a]
             /\ totals[a] <= Recs[a].estimated_steps * (MODELS[a].max_per_step_kg * KgUnit)

C6_Witness ==
  /\ Success
  /\ \E a \in DOMAIN Recs :
        /\ Recs[a].total_estimated_kg > MaxStepTenths(a)
        /\ Recs[a].step_recommendation_kg = MaxStepTenths(a)
        /\ Recs[a].estimated_steps = 3
        /\ totals[a] > 2 * MODELS[a].max_per_step_kg * KgUnit
        /\ totals[a] < 3 * MODELS[a].max_per_step_kg * KgUnit

\* C7 (as claimed): metadata.large_correction is true exactly when some
\* configured element has |delta| > 0.10 * target, a zero target included.
C7_Original ==
  Success =>
    (result.metadata.large_correction <=>
       \E e \in Elements :
          Abs(result.chemistry_delta[e]) * large_correction_den > Get(target_chemistry, e))

\* C7 (amended): metadata.large_correction is true exactly when some
\* configured element has a target value > 0 and |delta| / target > 0.10; an
\* element whose target value is 0 or missing never counts.
C7_LargeCorrection ==
  Success =>
    (result.metadata.large_correction <=>
       \E e \in Elements :
          /\ Get(target_chemistry, e) > 0
          /\ Abs(result.chemistry_delta[e]) * large_correction_den > Get(target_chemistry, e))

C7_Witness ==
  /\ Success
  /\ result.metadata.large_correction
  /\ \E e \in Elements : Get(target_chemistry, e) = 0 /\ result.chemistry_delta[e] # 0
  /\ \E e \in Elements :
        /\ Get(target_chemistry, e) > 0
        /\ Abs(result.chemistry_delta[e]) * large_correction_den > Get(target_chemistry, e)

\* C8: when a predictor's predict raises, the call returns an error result
\* with only status and message (no per-alloy results, chemistry_delta or
\* warnings); the failing predictor was invoked once and no later one at all.
PredictorRaised == Failed /\ result.message.text = "Prediction error" /\ result.message.bound = "predict"

C8_PredictorFailureAborts ==
  PredictorRaised =>
    /\ DOMAIN result = {"status", "message"}
    /\ \A i \in DOMAIN models :
          invoked[models[i]] = IF i <= idx + 1 THEN 1 ELSE 0
    /\ \A a \in Range(AlloyOrder) \ Range(models) : invoked[a] = 0

C8_Witness ==
  /\ PredictorRaised
  /\ idx >= 1
  /\ idx + 1 < Len(models)
  /\ DOMAIN predictions # {}
  /\ all_warnings # <<>>

\* C9: in every success result chemistry_delta has exactly the configured
\* elements as keys and chemistry_delta[e] = target[e] - initial[e], a value
\* missing from a map taken as 0.
C9_ChemistryDelta ==
  Success =>
    /\ DOMAIN result.chemistry_delta = {"C", "Si", "Mn", "Cr", "Ni"}
    /\ \A e \in DOMAIN result.chemistry_delta :
          result.chemistry_delta[e] =
             (IF e \in DOMAIN target_chemistry THEN target_chemistry[e] ELSE 0)
             - (IF e \in DOMAIN initial_chemistry THEN initial_chemistry[e] ELSE 0)

C9_Witness ==
  /\ Success
  /\ "P" \in DOMAIN initial_chemistry
  /\ "C" \in DOMAIN initial_chemistry /\ "C" \notin DOMAIN target_chemistry
  /\ "Ni" \in DOMAIN target_chemistry /\ "Ni" \notin DOMAIN initial_chemistry
  /\ result.chemistry_delta["C"] < 0
  /\ result.chemistry_delta["Ni"] > 0
  /\ result.chemistry_delta["Si"] = 0

\* C10: a success result says 'No alloy additions needed' exactly when every
\* alloy's step_recommendation_kg is 0; every other success result says
\* 'Recommended alloy additions for STEP 1:' and has an alloy with a
\* step_recommendation_kg > 0.
C10_MessageMatchesRecommendations ==
  Success =>
    /\ result.operator_instructions.message \in {NoAdditionsMessage, StepOneMessage}
    /\ result.operator_instructions.message = NoAdditionsMessage <=>
          \A a \in DOMAIN Recs : Recs[a].step_recommendation_kg = 0
    /\ result.operator_instructions.message = StepOneMessage <=>
          \E a \in DOMAIN Recs : Recs[a].step_recommendation_kg > 0

C10_Witness ==
  /\ Success
  /\ result.operator_instructions.message = NoAdditionsMessage
  /\ initial_chemistry = target_chemistry
  /\ DOMAIN initial_chemistry # {}
  /\ \A e \in Elements : result.chemistry_delta[e] = 0
  /\ \E a \in DOMAIN Recs : raw_outputs[a].v > 0

\* C11: whatever the arguments (out-of-range weight, a chemistry argument
\* that is not a mapping, a weight that is not a number, a predictor that
\* raises), the call returns a result with status success or error; every
\* error result has exactly status and message, and the message tells the
\* error conditions apart.
PredictRaised == \E a \in DOMAIN passed_features : a \notin DOMAIN raw_outputs

ErrorCondition ==
  IF ~IsNumber(melt_weight_kg) THEN <<"Prediction error", "weight_type">>
  ELSE IF OutOfRange(melt_weight_kg) /\ melt_weight_kg.v < min_melt_weight_kg
    THEN <<"Melt weight too small", "min">>
  ELSE IF OutOfRange(melt_weight_kg) THEN <<"Melt weight too large", "max">>
  ELSE IF ~IsMapping(initial_chemistry) \/ ~IsMapping(target_chemistry)
    THEN <<"Prediction error", "chemistry_type">>
  ELSE IF PredictRaised THEN <<"Prediction error", "predict">>
  ELSE <<"Prediction error", "nan">>

C11_NoFailureEscapes ==
  Returned =>
    /\ result.status \in {"success", "error"}
    /\ result.status = "error" =>
          /\ DOMAIN result = {"status", "message"}
          /\ <<result.message.text, result.message.bound>> = ErrorCondition
    /\ result.status = "success" =>
          /\ IsNumber(melt_weight_kg) /\ ~OutOfRange(melt_weight_kg)
          /\ IsMapping(initial_chemistry) /\ IsMapping(target_chemistry)
          /\ ~PredictRaised

C11_Witness ==
  /\ Failed
  /\ IsMapping(initial_chemistry)
  /\ ~IsMapping(target_chemistry)
  /\ melt_weight_kg = Float(11800)
  /\ result.message.bound = "chemistry_type"
  /\ \A a \in DOMAIN invoked : invoked[a] = 0

\* C13: for every alloy of a success result the total before rounding is
\* clamp(raw, 0, max_per_ton) * (melt_weight_kg / 1000) * 0.85 and the
\* returned total_estimated_kg is that value rounded to one decimal; the
\* total never exceeds max_per_ton * melt_weight_tons, and a raw output <= 0
\* gives total_estimated_kg = 0.
Clamped(raw, max) ==
  IF raw.nan \/ raw.v <= 0 THEN 0 ELSE IF raw.v >= max THEN max ELSE raw.v

C13_TotalFormula ==
  Success =>
    \A a \in DOMAIN Recs :
       LET tons50 == result.melt_weight_kg \div WeightGrain
           kpt == Clamped(raw_outputs[a], MODELS[a].max_per_ton)
       IN  /\ result.melt_weight_kg % WeightGrain = 0
           \* total / 0.85 = kg_per_ton * tons
           /\ totals[a] % safety_factor_num = 0
           /\ totals[a] \div safety_factor_num = kpt * tons50
           \* the returned total is within half a tenth of the total
           /\ 2 * Abs(totals[a] - Recs[a].total_estimated_kg * TenthUnit) <= TenthUnit
           /\ totals[a] \div safety_factor_den <= MODELS[a].max_per_ton * tons50
           /\ (~raw_outputs[a].nan /\ raw_outputs[a].v <= 0) => Recs[a].total_estimated_kg = 0

C13_Witness ==
  /\ Success
  /\ \E a \in DOMAIN Recs :
        /\ raw_outputs[a].v > 0
        /\ raw_outputs[a].v < MODELS[a].max_per_ton
        /\ totals[a] % TenthUnit # 0
        /\ Recs[a].total_estimated_kg > 0
  /\ \E a \in DOMAIN Recs :
        /\ raw_outputs[a].v > MODELS[a].max_per_ton
        /\ Recs[a].total_estimated_kg > 0
  /\ \E a \in DOMAIN Recs : raw_outputs[a].v < 0 /\ Recs[a].total_estimated_kg = 0

\* C14: in every success result each loaded alloy's predictor was invoked
\* exactly once, all with the same feature vector, whose i-th entry is the
\* delta of the i-th element of [C, Si, Mn, Cr, Ni]; in a call rejected for
\* its melt weight no predictor was invoked.
RejectedForWeight == Failed /\ result.message.bound \in {"min", "max"}

C14_PredictorInvocations ==
  /\ Success =>
        /\ \A a \in Range(AlloyOrder) : invoked[a] = IF a \in Range(models) THEN 1 ELSE 0
        /\ DOMAIN passed_features = Range(models)
        /\ \A a \in DOMAIN passed_features :
              /\ DOMAIN passed_features[a] = 1..5
              /\ passed_features[a][1] = result.chemistry_delta["C"]
              /\ passed_features[a][2] = result.chemistry_delta["Si"]
              /\ passed_features[a][3] = result.chemistry_delta["Mn"]
              /\ passed_features[a][4] = result.chemistry_delta["Cr"]
              /\ passed_features[a][5] = result.chemistry_delta["Ni"]
  /\ RejectedForWeight =>
        /\ \A a \in Range(AlloyOrder) : invoked[a] = 0
        /\ DOMAIN passed_features = {}

C14_Witness ==
  /\ Success
  /\ Len(models) = 4
  /\ result.chemistry_delta["C"] > 0
  /\ result.chemistry_delta["Ni"] < 0
  /\ \A a \in Range(models) : invoked[a] = 1 /\ passed_features[a][1] > 0

\* C15: for every alloy of a success result, the warnings contain that
\* alloy's large-step warning exactly when its step recommendation exceeds
\* 0.8 * max_per_step_kg; an alloy recommended at its full max_per_step_kg
\* always has the warning, a skipped alloy never.
HasWarning(a, kind) ==
  /\ ~result.warnings.is_none
  /\ \E i \in DOMAIN result.warnings.items :
        result.warnings.items[i].alloy = a /\ result.warnings.items[i].kind = kind

\* the step recommendation before rounding, in 1/KgUnit kg
StepBeforeRounding(a) ==
  IF Recs[a].estimated_steps = 0 THEN 0
  ELSE IF Recs[a].estimated_steps = 1 THEN totals[a]
  ELSE MODELS[a].max_per_step_kg * KgUnit

C15_LargeStepWarning ==
  Success =>
    \A a \in DOMAIN Recs :
       /\ HasWarning(a, "large_step") <=>
             StepBeforeRounding(a) * warn_threshold_den
                > MODELS[a].max_per_step_kg * KgUnit * warn_threshold_num
       /\ Recs[a].step_recommendation_kg = MaxStepTenths(a) => HasWarning(a, "large_step")
       /\ Recs[a].step_recommendation_kg = 0 => ~HasWarning(a, "large_step")

C15_Witness ==
  /\ Success
  /\ \E a \in DOMAIN Recs :
        Recs[a].estimated_steps > 1 /\ HasWarning(a, "large_step")
  /\ \E a \in DOMAIN Recs :
        /\ Recs[a].estimated_steps = 1
        /\ Recs[a].step_recommendation_kg < MaxStepTenths(a)
        /\ HasWarning(a, "large_step")
  /\ \E a \in DOMAIN Recs :
        Recs[a].estimated_steps = 1 /\ ~HasWarning(a, "large_step")
  /\ \E a \in DOMAIN Recs :
        Recs[a].estimated_steps = 0 /\ ~HasWarning(a, "large_step")

\* C16: in every success result the keys of recommendations and
\* metadata.models_used follow the configured alloy order (fesi, femn, fecr,
\* ni) restricted to the loaded models; per-alloy warnings come in that
\* order, an alloy's clamp warning before its large-step warning; the
\* large-correction warning, when present, is the first warning.
Pos(a) == CHOOSE i \in DOMAIN AlloyOrder : AlloyOrder[i] = a

InAlloyOrder(keys) ==
  \A i, j \in DOMAIN keys : i < j => Pos(keys[i]) < Pos(keys[j])

C16_AlloyOrderStable ==
  Success =>
    /\ result.recommendations_keys = models
    /\ result.metadata.models_used = models
    /\ InAlloyOrder(result.recommendations_keys)
    /\ InAlloyOrder(result.metadata.models_used)
    /\ ~result.warnings.is_none =>
          LET items == result.warnings.items
          IN  /\ \A i \in DOMAIN items : items[i].kind = "large_correction" => i = 1
              /\ \A i, j \in DOMAIN items :
                    (i < j /\ items[i].kind # "large_correction") =>
                       \/ Pos(items[i].alloy) < Pos(items[j].alloy)
                       \/ /\ items[i].alloy = items[j].alloy
                          /\ items[i].kind = "clamped"
                          /\ items[j].kind = "large_step"

C16_Witness ==
  /\ Success
  /\ Len(result.recommendations_keys) >= 3
  /\ Len(models) < Len(AlloyOrder)
  /\ ~result.warnings.is_none
  /\ result.warnings.items[1].kind = "large_correction"
  /\ Len(result.warnings.items) >= 4
  /\ \E a \in DOMAIN Recs : HasWarning(a, "clamped") /\ HasWarning(a, "large_step")

\* C19: whenever metadata.large_correction is true in a success result, the
\* warnings are a list whose first entry is the large-correction warning; and
\* whenever warnings is null, no clamp, large-step or large-correction warning
\* was generated during the call.
C19_WarningsComplete ==
  Success =>
    /\ result.metadata.large_correction =>
          /\ ~result.warnings.is_none
          /\ result.warnings.items[1] = LargeCorrectionWarning
    /\ result.warnings.is_none =>
          /\ all_warnings = <<>>
          /\ ~large_correction

SameAsReference ==
  /\ reference.set
  /\ reference.initial = initial_chemistry
  /\ reference.target = target_chemistry
  /\ reference.weight = melt_weight_kg

C12_Idempotent ==
  (Returned /\ SameAsReference) => result = reference.result

C12_Witness ==
  /\ Success
  /\ SameAsReference
  /\ reference.between >= 1
  /\ result = reference.result
  /\ \E a \in DOMAIN Recs : Recs[a].step_recommendation_kg > 0
  /\ ~result.warnings.is_none

(***************************************************************************)
(* The view                                                                *)
(***************************************************************************)
Answered == view.stage = "responded"
MissingField == Parsed(view.data) /\ \E f \in Range(required_fields) : f \notin DOMAIN view.data
ChemistryNotMapping ==
  /\ Parsed(view.data) /\ ~MissingField
  /\ \/ ~IsMapping(view.data["initial_chemistry"])
     \/ ~IsMapping(view.data["target_chemistry"])
WeightNotConvertible ==
  /\ Parsed(view.data) /\ ~MissingField
  /\ view.data["melt_weight_kg"].kind \notin {"number", "numeric_string", "nan_string"}
FailsACheck == MissingField \/ ChemistryNotMapping \/ WeightNotConvertible
NoPredictorInvoked == \A a \in Range(AlloyOrder) : invoked[a] = 0

\* C17: a request with a missing required field, a chemistry field that is
\* not a mapping, or a melt_weight_kg that cannot be converted to a number is
\* answered with an error result and HTTP 400 without predict_alloy_additions
\* or any predictor being invoked, and predict_alloy_additions is entered
\* only by a request that passes all three checks.
C17_RejectedBeforeInference ==
  /\ (Answered /\ FailsACheck) =>
       /\ view.response.result.status = "error"
       /\ view.response.http_status = HTTP_400_BAD_REQUEST
       /\ ~view.called
       /\ NoPredictorInvoked
  /\ (view.stage # "idle" /\ view.called) => (Parsed(view.data) /\ ~FailsACheck)

\* C18: every answered POST saved exactly one audit record, whose
\* response_status and http_status_code are those of the response, whenever
\* the database accepted writes.
C18_OneAuditRecord ==
  (Answered /\ view.database_up) =>
    /\ view.attempts = 1
    /\ Len(audit) = view.rows_before + 1
    /\ audit[Len(audit)].response_status = view.response.result.status
    /\ audit[Len(audit)].http_status_code = view.response.http_status
====
